---- MODULE Spec2Model ----
(***************************************************************************)
(* A model of mcp_server_simple.py: the line-delimited JSON-RPC dispatch   *)
(* loop SimpleMCPServer.run, its three handlers and the lazily created     *)
(* Databricks client handle.                                               *)
(*                                                                         *)
(* One step of the model is one iteration of the `while True` loop of      *)
(* run(): a line is read, parsed, routed, and its response (if any) is     *)
(* printed.  The variables `line`, `written` and `fx` record what the last *)
(* iteration read, printed and did, so that properties of one exchange are *)
(* state predicates.                                                       *)
(***************************************************************************)
EXTENDS Integers, Sequences, FiniteSets, TLC

VARIABLES
    sdk,        \* WorkspaceClient is not None (the SDK import succeeded)
    env,        \* DATABRICKS_HOST / DATABRICKS_TOKEN as os.getenv sees them
    client,     \* self.client: 0 is None, n > 0 is the n-th object constructed
    config,     \* self.config: <<>> is None, else <<host, token>>
    running,    \* the loop of run() has not been left
    line,       \* the line the last iteration read
    written,    \* the lines the last iteration printed on standard output
    fx,         \* what the last iteration did (see NoFx)
    nCreated,   \* WorkspaceClient objects constructed so far
    nSkipped    \* lines dropped by `except json.JSONDecodeError` so far

vars == <<sdk, env, client, config, running, line, written, fx, nCreated, nSkipped>>

\* The number of malformed lines a run of the model reads.
MaxSkipped == 2

-----------------------------------------------------------------------------
(* JSON values of the "id" member.  A value is <<type, n>>: null, the      *)
(* integer n, or a string of length n.  Python's truth test (`x or 0`) is  *)
(* false for None, 0 and "".                                               *)

JNull == <<"null", 0>>

JInt(n) == <<"int", n>>

JStr(n) == <<"str", n>>

Truthy(v) == v[1] # "null" /\ v[2] # 0

Ids == {JNull, JInt(0), JInt(5), JStr(0)}

\* Python's None where a string is expected (str(None) in an f-string).
None == "None"

ToolNames ==
    <<"databricks_test_connection", "databricks_list_clusters",
      "databricks_get_cluster", "databricks_list_jobs", "databricks_run_job",
      "databricks_get_job_run", "databricks_list_workspace">>

Catalogue == {ToolNames[i] : i \in 1..Len(ToolNames)}

UnknownNames == {"databricks_delete_cluster", None}

Methods == {"initialize", "tools/list", "tools/call", "resources/list", None}

\* params as request.get("params", {}) reads it: the member is absent (the
\* default {} is used), an object with a name and arguments, or any other
\* JSON value (an array, null, a number: no .get method).
NoParams == [kind |-> "absent", name |-> None, arguments |-> "absent"]

OtherParams == [kind |-> "other", name |-> None, arguments |-> "absent"]

CallParams ==
    {NoParams, OtherParams} \cup
    [kind : {"dict"}, name : Catalogue \cup UnknownNames,
     arguments : {"absent", "dict", "other"}]

PlainParams ==
    {NoParams, OtherParams,
     [kind |-> "dict", name |-> "databricks_list_jobs", arguments |-> "dict"]}

Requests ==
    [kind : {"object"}, method : {"tools/call"}, id : Ids, params : CallParams]
    \cup
    [kind : {"object"}, method : Methods \ {"tools/call"}, id : Ids,
     params : PlainParams]

Unparsed(k) == [kind |-> k, method |-> None, id |-> JNull, params |-> NoParams]

-----------------------------------------------------------------------------
(* Responses and exceptions.  A message is a tuple of strings (the pieces  *)
(* of the f-string); <<>> is "no exception".                               *)

NoResult == <<>>

NoError == [code |-> 0, message |-> <<>>]

InternalError == -32603

MethodNotFoundCode == -32601

InitializeDefaultId == 0

ListToolsDefaultId == 1

CallToolDefaultId == 2

CallToolErrorDefaultId == 3

ConfigError ==
    <<"DATABRICKS_HOST and DATABRICKS_TOKEN environment variables are required">>

SdkError == <<"Databricks SDK not installed">>

ConstructorError == <<"WorkspaceClient: ", "cannot configure credentials">>

AttributeError == <<"object has no attribute 'get'">>

NoFx ==
    [handler |-> "none", envReads |-> 0, remoteCalls |-> 0, created |-> 0,
     raised |-> <<>>, escaped |-> FALSE]

-----------------------------------------------------------------------------
(* The environment and the client handle.                                  *)

\* os.getenv gives None for a variable that is not set.
EnvHosts == {None, "", "https://dbc.example.net"}

EnvTokens == {None, "dapi-token"}

\* `not host`: os.getenv gave None or the empty string.
Unset(v) == v \in {None, ""}

\* _load_config: reads the environment; raises ValueError when the host or
\* the token is unset, else returns the config.
_load_config ==
    IF Unset(env.host) \/ Unset(env.token)
    THEN [exc |-> ConfigError, config |-> <<>>]
    ELSE [exc |-> <<>>, config |-> <<env.host, env.token>>]

\* The body of `if self.client is None:` in _ensure_client: RuntimeError when
\* the SDK is missing; else self.config is assigned from _load_config (which
\* may raise) and then the constructor runs (ctorOk: it returns a new object,
\* or it raises and leaves self.client None with self.config already
\* assigned).
CreateClient(ctorOk) ==
    IF ~sdk
    THEN [exc |-> SdkError, client |-> client, config |-> config,
          envReads |-> 0, created |-> 0]
    ELSE LET c == _load_config
         IN  IF c.exc # <<>>
             THEN [exc |-> c.exc, client |-> client, config |-> config,
                   envReads |-> 1, created |-> 0]
             ELSE IF ctorOk
             THEN [exc |-> <<>>, client |-> nCreated + 1, config |-> c.config,
                   envReads |-> 1, created |-> 1]
             ELSE [exc |-> ConstructorError, client |-> client,
                   config |-> c.config, envReads |-> 1, created |-> 0]

\* _ensure_client with the `self.client is None` test left out.
EnsureClientUnguarded(ctorOk) ==
    CreateClient(ctorOk)

\* _ensure_client: nothing when the handle exists, else CreateClient.
_ensure_client(ctorOk) ==
    IF client # 0
    THEN [exc |-> <<>>, client |-> client, config |-> config,
          envReads |-> 0, created |-> 0]
    ELSE CreateClient(ctorOk)

-----------------------------------------------------------------------------
(* The seven tool methods: one remote call each, whose failure is wrapped  *)
(* in a RuntimeError with the tool's own prefix.                           *)

RemoteFailure == "remote call failed"

Remote(prefix, text, remoteOk) ==
    IF remoteOk
    THEN [exc |-> <<>>, result |-> <<text>>, remoteCalls |-> 1]
    ELSE [exc |-> <<prefix, RemoteFailure>>, result |-> NoResult,
          remoteCalls |-> 1]

_test_connection(remoteOk) ==
    Remote("Connection failed: ",
           "Successfully connected to Databricks workspace!", remoteOk)

_list_clusters(remoteOk) ==
    Remote("Error listing clusters: ", "cluster_info", remoteOk)

_get_cluster(remoteOk) ==
    Remote("Error getting cluster: ", "cluster", remoteOk)

_list_jobs(remoteOk) ==
    Remote("Error listing jobs: ", "job_info", remoteOk)

_run_job(remoteOk) ==
    Remote("Error running job: ", "Job run started successfully!", remoteOk)

_get_job_run(remoteOk) ==
    Remote("Error getting job run: ", "run_info", remoteOk)

_list_workspace(remoteOk) ==
    Remote("Error listing workspace: ", "object_info", remoteOk)

Raise(message) == [exc |-> message, result |-> NoResult, remoteCalls |-> 0]

\* The tool lookup with the final `else: raise ValueError` left out: an
\* unrecognised name falls through to the connection test.
CallNamedToolNoElse(tool_name, arguments, remoteOk) ==
    _test_connection(remoteOk)

\* The if/elif chain of _handle_call_tool.  A tool that takes arguments
\* evaluates arguments.get(...) before its method is called, which raises
\* AttributeError when "arguments" is not an object.
CallNamedTool(tool_name, arguments, remoteOk) ==
    IF tool_name = "databricks_test_connection"
    THEN _test_connection(remoteOk)
    ELSE IF tool_name = "databricks_list_clusters"
    THEN _list_clusters(remoteOk)
    ELSE IF tool_name = "databricks_get_cluster"
    THEN IF arguments = "other" THEN Raise(AttributeError)
         ELSE _get_cluster(remoteOk)
    ELSE IF tool_name = "databricks_list_jobs"
    THEN _list_jobs(remoteOk)
    ELSE IF tool_name = "databricks_run_job"
    THEN IF arguments = "other" THEN Raise(AttributeError)
         ELSE _run_job(remoteOk)
    ELSE IF tool_name = "databricks_get_job_run"
    THEN IF arguments = "other" THEN Raise(AttributeError)
         ELSE _get_job_run(remoteOk)
    ELSE IF tool_name = "databricks_list_workspace"
    THEN IF arguments = "other" THEN Raise(AttributeError)
         ELSE _list_workspace(remoteOk)
    ELSE Raise(<<"Unknown tool: ", tool_name>>)

-----------------------------------------------------------------------------
(* The three handlers.  Each returns the response dictionary.              *)

Response(id, result, error) == [id |-> id, result |-> result, error |-> error]

\* request_id, or the handler's default when it is None.
OrDefault(request_id, default) ==
    IF request_id = JNull THEN JInt(default) ELSE request_id

_handle_initialize(params, request_id) ==
    Response(OrDefault(request_id, InitializeDefaultId),
             <<"protocolVersion", "capabilities", "serverInfo">>, NoError)

\* _handle_list_tools with the default id of _handle_initialize.
HandleListToolsDefaultZero(params, request_id) ==
    Response(OrDefault(request_id, InitializeDefaultId), ToolNames, NoError)

_handle_list_tools(params, request_id) ==
    Response(OrDefault(request_id, ListToolsDefaultId), ToolNames, NoError)

\* The `except Exception as e` block of _handle_call_tool.  Its logging line
\* evaluates params.get('name') again: when params is not an object that
\* raises inside the except block, and the exception leaves the handler.
CallToolExcept(params, request_id, e) ==
    IF params.kind = "other"
    THEN [escaped |-> TRUE, resp |-> <<>>]
    ELSE [escaped |-> FALSE,
          resp |-> <<Response(OrDefault(request_id, CallToolErrorDefaultId),
                              NoResult,
                              [code |-> InternalError, message |-> e])>>]

\* _handle_call_tool: the outcome of the whole handler, as
\* [escaped, resp, client, config, fx]: resp is <<response>> when the handler
\* returns and <<>> when an exception leaves it (escaped).
_handle_call_tool(params, request_id, ctorOk, remoteOk) ==
    IF params.kind = "other"
    THEN \* params.get("name") raises AttributeError
         CallToolExcept(params, request_id, AttributeError) @@
         [client |-> client, config |-> config,
          fx |-> [NoFx EXCEPT !.handler = "call", !.raised = AttributeError]]
    ELSE LET ec == _ensure_client(ctorOk)
             after == [client |-> ec.client, config |-> ec.config]
             fx1 == [NoFx EXCEPT !.handler = "call",
                                 !.envReads = ec.envReads,
                                 !.created = ec.created]
         IN  IF ec.exc # <<>>
             THEN CallToolExcept(params, request_id, ec.exc) @@ after @@
                  [fx |-> [fx1 EXCEPT !.raised = ec.exc]]
             ELSE LET t == CallNamedTool(params.name, params.arguments,
                                         remoteOk)
                      fx2 == [fx1 EXCEPT !.remoteCalls = t.remoteCalls,
                                         !.raised = t.exc]
                  IN  IF t.exc # <<>>
                      THEN CallToolExcept(params, request_id, t.exc) @@
                           after @@ [fx |-> fx2]
                      ELSE [escaped |-> FALSE,
                            resp |-> <<Response(
                                OrDefault(request_id, CallToolDefaultId),
                                t.result, NoError)>>] @@
                           after @@ [fx |-> fx2]

-----------------------------------------------------------------------------
(* run(): one action per way an iteration of the loop can go.              *)

\* The `else` branch of run() answering with the tool-call error code.
MethodNotFoundAsInternalError(method, request_id) ==
    Response(IF Truthy(request_id) THEN request_id ELSE JInt(0), NoResult,
             [code |-> InternalError,
              message |-> <<"Method not found: ", method>>])

\* The `else` branch of the routing in run(): `request_id or 0` replaces
\* every false id (None, 0, "") by 0.
MethodNotFound(method, request_id) ==
    Response(IF Truthy(request_id) THEN request_id ELSE JInt(0), NoResult,
             [code |-> MethodNotFoundCode,
              message |-> <<"Method not found: ", method>>])

\* What the SDK does when it is reached: the WorkspaceClient constructor and
\* the remote call either return or raise.
Outcomes == {"ok", "constructor raises", "remote call raises"}

Init ==
    /\ sdk \in BOOLEAN
    /\ env \in [host : EnvHosts, token : EnvTokens]
    /\ client = 0
    /\ config = <<>>
    /\ running = TRUE
    /\ line = Unparsed("none")
    /\ written = <<>>
    /\ fx = NoFx
    /\ nCreated = 0
    /\ nSkipped = 0

\* `if not line.strip(): continue`
SkipBlank ==
    /\ running
    /\ line' = Unparsed("blank")
    /\ written' = <<>>
    /\ fx' = NoFx
    /\ UNCHANGED <<sdk, env, client, config, running, nCreated, nSkipped>>

\* json.loads raises JSONDecodeError: logged, nothing printed, next line.
SkipInvalidJSON ==
    /\ running
    /\ nSkipped < MaxSkipped
    /\ line' = Unparsed("malformed")
    /\ written' = <<>>
    /\ fx' = NoFx
    /\ nSkipped' = nSkipped + 1
    /\ UNCHANGED <<sdk, env, client, config, running, nCreated>>

\* The line is valid JSON but not an object (an array, a number, a string,
\* null): request.get raises AttributeError, which `except Exception` logs.
DropNonObject ==
    /\ running
    /\ line' = Unparsed("value")
    /\ written' = <<>>
    /\ fx' = [NoFx EXCEPT !.raised = AttributeError, !.escaped = TRUE]
    /\ UNCHANGED <<sdk, env, client, config, running, nCreated, nSkipped>>

Initialize ==
    /\ running
    /\ \E req \in Requests :
        /\ req.method = "initialize"
        /\ line' = req
        /\ written' = <<_handle_initialize(req.params, req.id)>>
    /\ fx' = [NoFx EXCEPT !.handler = "initialize"]
    /\ UNCHANGED <<sdk, env, client, config, running, nCreated, nSkipped>>

ListTools ==
    /\ running
    /\ \E req \in Requests :
        /\ req.method = "tools/list"
        /\ line' = req
        /\ written' = <<_handle_list_tools(req.params, req.id)>>
    /\ fx' = [NoFx EXCEPT !.handler = "list"]
    /\ UNCHANGED <<sdk, env, client, config, running, nCreated, nSkipped>>

\* tools/call: the handler's response is printed, unless an exception left
\* the handler, which `except Exception` in run() logs without printing.
CallTool ==
    /\ running
    /\ \E req \in Requests, outcome \in Outcomes :
        /\ req.method = "tools/call"
        /\ \E h \in {_handle_call_tool(req.params, req.id,
                                         outcome # "constructor raises",
                                         outcome # "remote call raises")} :
               /\ line' = req
               /\ written' = h.resp
               /\ client' = h.client
               /\ config' = h.config
               /\ nCreated' = nCreated + h.fx.created
               /\ fx' = [h.fx EXCEPT !.escaped = h.escaped]
    /\ UNCHANGED <<sdk, env, running, nSkipped>>

UnknownMethod ==
    /\ running
    /\ \E req \in Requests :
        /\ req.method \notin {"initialize", "tools/list", "tools/call"}
        /\ line' = req
        /\ written' = <<MethodNotFound(req.method, req.id)>>
    /\ fx' = NoFx
    /\ UNCHANGED <<sdk, env, client, config, running, nCreated, nSkipped>>

\* input() raises EOFError (or KeyboardInterrupt arrives): the loop is left.
Stop ==
    /\ running
    /\ running' = FALSE
    /\ line' = Unparsed("eof")
    /\ written' = <<>>
    /\ fx' = NoFx
    /\ UNCHANGED <<sdk, env, client, config, nCreated, nSkipped>>

Next ==
    \/ SkipBlank
    \/ SkipInvalidJSON
    \/ DropNonObject
    \/ Initialize
    \/ ListTools
    \/ CallTool
    \/ UnknownMethod
    \/ Stop

Spec == Init /\ [][Next]_vars

-----------------------------------------------------------------------------
(* Properties.  `line`, `written` and `fx` describe the last iteration, so *)
(* a property of one exchange is a predicate on the state after it.        *)

IsRequest == line.kind = "object"

IsCall == IsRequest /\ line.method = "tools/call"

\* The name params.get("name") reads; defined when params is an object
\* (or absent, which reads the default {}).
HasToolName == IsCall /\ line.params.kind # "other"

Answered == Len(written) = 1

IsError(code) ==
    /\ Answered
    /\ written[1].error.code = code
    /\ written[1].result = NoResult

Mentions(message, name) == \E i \in 1..Len(message) : message[i] = name

\* C1: every line that parses as JSON (an object or any other JSON value) is
\* answered by exactly one output line, and a line that does not parse (blank
\* or malformed) by none.
C1_OneResponsePerParsedLine ==
    /\ line.kind \in {"object", "value"} => Len(written) = 1
    /\ line.kind \in {"blank", "malformed"} => Len(written) = 0

\* C2: whenever an exception is raised while a tools/call is handled, the
\* handler returns an error response with code -32603 and the exception's
\* message, no result, and at most one remote call was made.
C2_CallExceptionBecomesError ==
    (IsCall /\ fx.raised # <<>>) =>
        /\ IsError(InternalError)
        /\ written[1].error.message = fx.raised
        /\ ~fx.escaped
        /\ fx.remoteCalls <= 1

\* C3 as stated: a tools/call naming no catalogue tool is answered, in every
\* server state (client handle present or absent, credentials present or
\* absent; read here with the SDK importable), by an error -32603 whose
\* message contains the name.
C3_UnknownToolNamedInEveryState ==
    (sdk /\ HasToolName /\ line.params.name \notin Catalogue) =>
        /\ IsError(InternalError)
        /\ Mentions(written[1].error.message, line.params.name)

\* C3 as amended: a tools/call naming no catalogue tool is answered by an
\* error -32603 and makes no remote call; the message contains the name when
\* the client handle exists after _ensure_client, and is otherwise the
\* message of the failure of _ensure_client (SDK missing, configuration
\* error, constructor failure).
C3_UnknownToolNamedWhenClientReady ==
    (HasToolName /\ line.params.name \notin Catalogue) =>
        /\ IsError(InternalError)
        /\ fx.remoteCalls = 0
        /\ client # 0 =>
               written[1].error.message = <<"Unknown tool: ", line.params.name>>
        /\ client = 0 =>
               written[1].error.message \in
                   {SdkError, ConfigError, ConstructorError}

C3_Witness ==
    /\ HasToolName
    /\ line.params.name = "databricks_delete_cluster"
    /\ client # 0
    /\ IsError(InternalError)
    /\ Mentions(written[1].error.message, "databricks_delete_cluster")

\* C4: with the host or the token absent from the environment (so that no
\* client handle can exist; read here with the SDK importable), a tools/call
\* is answered by an error -32603 carrying the configuration error message,
\* creates no client handle and makes no remote call.
C4_MissingCredentialsConfigError ==
    (sdk /\ IsCall /\ (env.host = None \/ env.token = None)) =>
        /\ IsError(InternalError)
        /\ written[1].error.message = ConfigError
        /\ client = 0
        /\ fx.created = 0
        /\ fx.remoteCalls = 0

\* C5: the response to a request with no id carries the handler's default:
\* 0 from initialize, 1 from tools/list, 2 from a tools/call that succeeds
\* and 3 from a tools/call that fails.
C5_DefaultIds ==
    (IsRequest /\ line.id = JNull /\ Answered) =>
        /\ fx.handler = "initialize" => written[1].id = JInt(0)
        /\ fx.handler = "list" => written[1].id = JInt(1)
        /\ (fx.handler = "call" /\ written[1].error = NoError) =>
               written[1].id = JInt(2)
        /\ (fx.handler = "call" /\ written[1].error # NoError) =>
               written[1].id = JInt(3)

C5_Witness ==
    /\ IsCall
    /\ line.id = JNull
    /\ fx.raised # <<>>
    /\ Answered
    /\ written[1].error.code = InternalError
    /\ written[1].id = JInt(3)

\* C6: a response to a request that carries an id carries that id unchanged,
\* on every dispatch path.
C6_IdEchoed ==
    (IsRequest /\ line.id # JNull /\ Answered) => written[1].id = line.id

\* C7: a request whose method is none of initialize, tools/list, tools/call
\* (or is absent) is answered by an error -32601 with no result; none of the
\* three handlers runs, no client handle is created, the environment is not
\* read and no remote call is made.
C7_UnknownMethod ==
    (IsRequest /\ line.method \notin {"initialize", "tools/list", "tools/call"})
        => /\ IsError(MethodNotFoundCode)
           /\ fx.handler = "none"
           /\ fx.created = 0
           /\ fx.envReads = 0
           /\ fx.remoteCalls = 0

C7_Witness ==
    /\ IsRequest
    /\ line.method = None
    /\ line.id = JInt(5)
    /\ IsError(MethodNotFoundCode)
    /\ written[1].id = JInt(5)
    /\ fx.handler = "none"

\* C8: a malformed line produces no output and leaves the loop running, and
\* every request read once malformed lines have been skipped is answered.
C8_RequestsAfterMalformedAnswered ==
    /\ line.kind = "malformed" => (Len(written) = 0 /\ running)
    /\ (nSkipped > 0 /\ IsRequest) => Answered

\* C9: once self.config holds a config, no later iteration reads the
\* environment.
C9_ConfigLoadedOnce ==
    [][config # <<>> => fx'.envReads = 0]_vars

\* C10: at most one client handle is ever constructed; only a tools/call
\* constructs it; once it exists no iteration replaces or clears it.
C10_ClientCreatedOnce ==
    /\ [](nCreated <= 1)
    /\ [][/\ client # 0 => client' = client
          /\ client' # client => (line'.method = "tools/call" /\
                                  fx'.handler = "call" /\ fx'.created = 1)
         ]_vars

C10_Witness ==
    /\ IsCall
    /\ client = 1
    /\ nCreated = 1
    /\ fx.created = 0
    /\ fx.raised # <<>>
    /\ fx.remoteCalls = 1

====
